---- MODULE Spec2Model ----
(***************************************************************************)
(* ForkedDaapdAPI.start_websocket_handler (pyforked_daapd/__init__.py,     *)
(* lines 135-176) as a state machine.  The coroutine is followed statement *)
(* by statement; every await is a program position at which the awaited    *)
(* operation (ws_connect, a callback, send_json, the next message of the   *)
(* websocket, asyncio.sleep) completes with one of the outcomes an awaited *)
(* Python coroutine can have: it returns, it raises an exception the       *)
(* except clause of line 166 names, it raises another exception, or the    *)
(* task is cancelled while it is pending.                                  *)
(***************************************************************************)
EXTENDS Integers, Sequences, FiniteSets, TLC

\* ---------------------------------------------------------------- bounds

\* connect attempts the environment answers (iterations of `while True`)
MaxConnects == 3

\* inbound messages the server sends within one session
MaxFrames == 2

\* ---------------------------------------------------------------- inputs

\* ws_port values: 0 is "websocket not enabled"
Ports == {0, 3689}

\* event_types values the caller may pass
EventTypeLists == {<<"player">>, <<"player", "queue">>}

\* websocket_reconnect_time values (seconds)
ReconnectTimes == {1, 5}

\* "notify" lists a server update frame may carry
Notifs == {<<"player">>, <<"queue", "volume">>}

\* inbound websocket messages: update frames, a payload that is not JSON, a
\* JSON payload without the "notify" key
Msgs ==
    {[kind |-> "update", notify |-> n] : n \in Notifs}
        \cup {[kind |-> "nojson", notify |-> <<>>],
              [kind |-> "nonotify", notify |-> <<>>]}

NoMsg == [kind |-> "none", notify |-> <<>>]

\* exceptions an awaited operation may raise: asyncio.TimeoutError,
\* aiohttp.ClientError, anything else that is an Exception
Kinds == {"timeout", "client", "other"}

\* the exceptions `except (asyncio.TimeoutError, aiohttp.ClientError)` names
Retryable == {"timeout", "client"}

VARIABLES
    ws_port,                    \* parameter
    event_types,                \* parameter
    websocket_reconnect_time,   \* parameter
    disconnected_callback,      \* parameter: TRUE when a callback is supplied
    pc,                         \* position of the coroutine
    err,                        \* the exception that left the coroutine
    updates,                    \* local variable of line 162
    msg,                        \* loop variable of line 161
    sockets,                    \* websockets currently open
    inflight,                   \* callback invocations begun and not completed
    log,                        \* events of the current iteration of `while True`
    connects,                   \* history: connect attempts made
    failed,                     \* history: attempts ended by a retryable error
    sess_errs,                  \* history: sessions ended by a retryable error
    disc_calls,                 \* history: disconnected_callback invocations
    given_event_types,          \* history: event_types as passed by the caller
    api_pc,                     \* position of a request method of the class
    api_call,                   \* that method and its arguments
    api_req,                    \* the HTTP request it issued
    api_got,                    \* what the HTTP request came to
    api_ret                     \* what the method returned or raised

vars ==
    <<ws_port, event_types, websocket_reconnect_time, disconnected_callback,
      pc, err, updates, msg, sockets, inflight, log, connects, failed,
      sess_errs, disc_calls, given_event_types, api_pc, api_call, api_req,
      api_got, api_ret>>

\* the state of the request methods (lines 77-133, 213-465)
facade == <<api_pc, api_call, api_req, api_got, api_ret>>

params ==
    <<ws_port, event_types, websocket_reconnect_time, disconnected_callback,
      given_event_types>>

\* an observable event: what happened, the list it carried, a duration
Ev(e, a, n) == [ev |-> e, arg |-> a, n |-> n]

E(e) == Ev(e, <<>>, 0)

\* the subscribe frame of line 159: {"notify": event_types}
SubscribeFrame(types) == [notify |-> types]

\* an optional argument: None, or a value
None == <<>>

Some(v) == <<v>>

NoCall == [op |-> "none", x |-> None, y |-> None, s |-> None, t |-> None]

NoReq == [method |-> "none", url |-> <<>>, key |-> "", value |-> None,
          output_id |-> None]

NoJson == [shape |-> "none", items |-> <<>>]

NoGot == [kind |-> "none", json |-> NoJson, status |-> 0]

NoRet == [kind |-> "none", type |-> "", list |-> <<>>, obj |-> NoJson,
          status |-> 0, exc |-> ""]

\* no request method has been called
ApiIdle ==
    /\ api_pc = "idle"
    /\ api_call = NoCall
    /\ api_req = NoReq
    /\ api_got = NoGot
    /\ api_ret = NoRet

\* msg.json()["notify"] of line 162: the list, or an exception
Parse(m) ==
    IF m.kind = "update"
    THEN [ok |-> TRUE, notify |-> m.notify]
    ELSE [ok |-> FALSE, notify |-> <<>>]

Init ==
    /\ ws_port \in Ports
    /\ event_types \in EventTypeLists
    /\ websocket_reconnect_time \in ReconnectTimes
    /\ disconnected_callback \in BOOLEAN
    /\ given_event_types = event_types
    /\ pc = "start"
    /\ err = "none"
    /\ updates = <<>>
    /\ msg = NoMsg
    /\ sockets = 0
    /\ inflight = <<>>
    /\ log = <<>>
    /\ connects = 0
    /\ failed = 0
    /\ sess_errs = 0
    /\ disc_calls = 0
    /\ ApiIdle

\* Start without the ws_port check of line 145
Start_NoPortCheck ==
    /\ pc = "start"
    /\ pc' = "loop"
    /\ UNCHANGED <<params, facade, err, updates, msg, sockets, inflight, log,
                   connects, failed, sess_errs, disc_calls>>

\* lines 144-150: the ws_port check, then the loop is entered
Start ==
    /\ pc = "start"
    /\ IF ws_port = 0
       THEN /\ pc' = "raised"
            /\ err' = "not_enabled"
       ELSE /\ pc' = "loop"
            /\ err' = err
    /\ UNCHANGED <<params, facade, updates, msg, sockets, inflight, log, connects,
                   failed, sess_errs, disc_calls>>

\* Catch with `except Exception` at line 166: every exception is retried
Catch_All(kind, base, infl, socks) ==
    /\ sockets' = socks
    /\ err' = err
    /\ IF disconnected_callback
       THEN /\ pc' = "disc"
            /\ inflight' = Append(infl, "disconnected_callback")
            /\ disc_calls' = disc_calls + 1
            /\ log' = Append(base, E("call_disconnected"))
       ELSE /\ pc' = "sleep"
            /\ inflight' = infl
            /\ disc_calls' = disc_calls
            /\ log' = base

\* Catch without lines 173-174: disconnected_callback is never called
Catch_NoHook(kind, base, infl, socks) ==
    /\ sockets' = socks
    /\ inflight' = infl
    /\ disc_calls' = disc_calls
    /\ log' = base
    /\ IF kind \in Retryable
       THEN /\ err' = err
            /\ pc' = "sleep"
       ELSE /\ pc' = "raised"
            /\ err' = kind

\* lines 166-176, entered with exception `kind` raised inside the try block:
\* a retryable one is logged, disconnected_callback (when supplied) is called
\* and awaited, else asyncio.sleep is awaited; any other one is not caught.
\* base: the events so far; infl: the callbacks in progress; socks: the
\* websockets open once the `async with` block, if entered, has been left.
Catch(kind, base, infl, socks) ==
    /\ sockets' = socks
    /\ IF kind \in Retryable
       THEN /\ err' = err
            /\ IF disconnected_callback
               THEN /\ pc' = "disc"
                    /\ inflight' = Append(infl, "disconnected_callback")
                    /\ disc_calls' = disc_calls + 1
                    /\ log' = Append(base, E("call_disconnected"))
               ELSE /\ pc' = "sleep"
                    /\ inflight' = infl
                    /\ disc_calls' = disc_calls
                    /\ log' = base
       ELSE /\ pc' = "raised"
            /\ err' = kind
            /\ inflight' = infl
            /\ disc_calls' = disc_calls
            /\ log' = base

\* an exception raised inside the `async with` block of lines 153-165: the
\* context manager releases the websocket, then the try statement sees it
SessionRaise(kind, event, infl) ==
    /\ sess_errs' = IF kind \in Retryable THEN sess_errs + 1 ELSE sess_errs
    /\ Catch(kind, log \o <<Ev(event, <<kind>>, 0), E("close")>>, infl,
             sockets - 1)

\* lines 151-153: an iteration of `while True` begins, ws_connect is awaited
Connect ==
    /\ pc = "loop"
    /\ connects < MaxConnects
    /\ pc' = "connecting"
    /\ connects' = connects + 1
    /\ log' = <<>>
    /\ UNCHANGED <<params, facade, err, updates, msg, sockets, inflight, failed,
                   sess_errs, disc_calls>>

\* line 153-155: ws_connect returns a websocket, the with block is entered
ConnectOk ==
    /\ pc = "connecting"
    /\ pc' = "entered"
    /\ sockets' = sockets + 1
    /\ log' = Append(log, E("connect_ok"))
    /\ UNCHANGED <<params, facade, err, updates, msg, inflight, connects, failed,
                   sess_errs, disc_calls>>

\* line 153: ws_connect raises
ConnectFail(kind) ==
    /\ pc = "connecting"
    /\ failed' = IF kind \in Retryable THEN failed + 1 ELSE failed
    /\ Catch(kind, Append(log, Ev("connect_fail", <<kind>>, 0)), inflight,
             sockets)
    /\ UNCHANGED <<params, facade, updates, msg, connects, sess_errs>>

\* CallPrime with line 156 missing: the subscribe frame is sent at once
CallPrime_Skipped ==
    /\ pc = "entered"
    /\ pc' = "send"
    /\ UNCHANGED <<params, facade, err, updates, msg, sockets, inflight, log,
                   connects, failed, sess_errs, disc_calls>>

\* lines 156-158: update_callback(event_types) is called and awaited
CallPrime ==
    /\ pc = "entered"
    /\ pc' = "prime"
    /\ inflight' = Append(inflight, "update_callback")
    /\ log' = Append(log, Ev("call_update", event_types, 0))
    /\ UNCHANGED <<params, facade, err, updates, msg, sockets, connects, failed,
                   sess_errs, disc_calls>>

\* line 156 completes; line 159: send_json is awaited
PrimeReturn ==
    /\ pc = "prime"
    /\ inflight # <<>>
    /\ pc' = "send"
    /\ inflight' = Tail(inflight)
    /\ log' = Append(log, E("ret_update"))
    /\ UNCHANGED <<params, facade, err, updates, msg, sockets, connects, failed,
                   sess_errs, disc_calls>>

\* line 156: the priming update_callback raises
PrimeRaise(kind) ==
    /\ pc = "prime"
    /\ inflight # <<>>
    /\ SessionRaise(kind, "raise_update", Tail(inflight))
    /\ UNCHANGED <<params, facade, updates, msg, connects, failed>>

\* SendOk sending the last received list instead of event_types
SendOk_Updates ==
    /\ pc = "send"
    /\ pc' = "recv"
    /\ log' = Append(log, Ev("send", SubscribeFrame(updates).notify, 0))
    /\ UNCHANGED <<params, facade, err, updates, msg, sockets, inflight, connects,
                   failed, sess_errs, disc_calls>>

\* line 159: the subscribe frame {"notify": event_types} is sent; line 161:
\* the next message is awaited
SendOk ==
    /\ pc = "send"
    /\ pc' = "recv"
    /\ log' = Append(log, Ev("send", SubscribeFrame(event_types).notify, 0))
    /\ UNCHANGED <<params, facade, err, updates, msg, sockets, inflight, connects,
                   failed, sess_errs, disc_calls>>

\* line 159: send_json raises
SendFail(kind) ==
    /\ pc = "send"
    /\ SessionRaise(kind, "send_fail", inflight)
    /\ UNCHANGED <<params, facade, updates, msg, connects, failed>>

\* the inbound messages of the current session
Received == SelectSeq(log, LAMBDA e : e.ev = "recv")

\* line 161: the websocket yields the next message
Recv(m) ==
    /\ pc = "recv"
    /\ Len(Received) < MaxFrames
    /\ pc' = "parse"
    /\ msg' = m
    /\ log' = Append(log, Ev("recv", m.notify, 0))
    /\ UNCHANGED <<params, facade, err, updates, sockets, inflight, connects, failed,
                   sess_errs, disc_calls>>

\* RecvClosed with a return after the async for of line 161
RecvClosed_Return ==
    /\ pc = "recv"
    /\ pc' = "returned"
    /\ sockets' = sockets - 1
    /\ log' = log \o <<E("closed"), E("close")>>
    /\ UNCHANGED <<params, facade, err, updates, msg, inflight, connects, failed,
                   sess_errs, disc_calls>>

\* RecvClosed without the `async with` of line 153: the websocket stays open
RecvClosed_NoRelease ==
    /\ pc = "recv"
    /\ pc' = "loop"
    /\ log' = Append(log, E("closed"))
    /\ UNCHANGED <<params, facade, err, updates, msg, sockets, inflight, connects,
                   failed, sess_errs, disc_calls>>

\* line 161: the iteration ends (the socket was closed): the with block and
\* the try statement are left normally and `while True` starts over
RecvClosed ==
    /\ pc = "recv"
    /\ pc' = "loop"
    /\ sockets' = sockets - 1
    /\ log' = log \o <<E("closed"), E("close")>>
    /\ UNCHANGED <<params, facade, err, updates, msg, inflight, connects, failed,
                   sess_errs, disc_calls>>

\* line 161: receiving raises
RecvFail(kind) ==
    /\ pc = "recv"
    /\ SessionRaise(kind, "recv_fail", inflight)
    /\ UNCHANGED <<params, facade, updates, msg, connects, failed>>

\* CallUpdate passing event_types instead of updates at line 164
CallUpdate_Stale ==
    /\ pc = "parse"
    /\ IF Parse(msg).ok
       THEN /\ updates' = Parse(msg).notify
            /\ pc' = "deliver"
            /\ inflight' = Append(inflight, "update_callback")
            /\ log' = Append(log, Ev("call_update", event_types, 0))
            /\ UNCHANGED <<err, sockets, sess_errs, disc_calls>>
       ELSE /\ updates' = updates
            /\ SessionRaise("other", "parse_fail", inflight)
    /\ UNCHANGED <<params, facade, msg, connects, failed>>

\* CallUpdate without the await of line 164: the callback is started and the
\* loop goes on to the next message
CallUpdate_NotAwaited ==
    /\ pc = "parse"
    /\ IF Parse(msg).ok
       THEN /\ updates' = Parse(msg).notify
            /\ pc' = "recv"
            /\ inflight' = Append(inflight, "update_callback")
            /\ log' = Append(log, Ev("call_update", updates', 0))
            /\ UNCHANGED <<err, sockets, sess_errs, disc_calls>>
       ELSE /\ updates' = updates
            /\ SessionRaise("other", "parse_fail", inflight)
    /\ UNCHANGED <<params, facade, msg, connects, failed>>

\* lines 162-164: updates = msg.json()["notify"], then update_callback(updates)
\* is called and awaited; a message without that list raises at line 162
CallUpdate ==
    /\ pc = "parse"
    /\ IF Parse(msg).ok
       THEN /\ updates' = Parse(msg).notify
            /\ pc' = "deliver"
            /\ inflight' = Append(inflight, "update_callback")
            /\ log' = Append(log, Ev("call_update", updates', 0))
            /\ UNCHANGED <<err, sockets, sess_errs, disc_calls>>
       ELSE /\ updates' = updates
            /\ SessionRaise("other", "parse_fail", inflight)
    /\ UNCHANGED <<params, facade, msg, connects, failed>>

\* DeliverReturn with line 159 inside the async for: a subscribe frame is
\* sent after every delivery
DeliverReturn_Resubscribe ==
    /\ pc = "deliver"
    /\ inflight # <<>>
    /\ pc' = "send"
    /\ inflight' = Tail(inflight)
    /\ log' = Append(log, E("ret_update"))
    /\ UNCHANGED <<params, facade, err, updates, msg, sockets, connects, failed,
                   sess_errs, disc_calls>>

\* line 164 completes; lines 165, 161: the next message is awaited
DeliverReturn ==
    /\ pc = "deliver"
    /\ inflight # <<>>
    /\ pc' = "recv"
    /\ inflight' = Tail(inflight)
    /\ log' = Append(log, E("ret_update"))
    /\ UNCHANGED <<params, facade, err, updates, msg, sockets, connects, failed,
                   sess_errs, disc_calls>>

\* line 164: update_callback raises
DeliverRaise(kind) ==
    /\ pc = "deliver"
    /\ inflight # <<>>
    /\ SessionRaise(kind, "raise_update", Tail(inflight))
    /\ UNCHANGED <<params, facade, updates, msg, connects, failed>>

\* line 174 completes; line 175: asyncio.sleep is awaited
DiscReturn ==
    /\ pc = "disc"
    /\ inflight # <<>>
    /\ pc' = "sleep"
    /\ inflight' = Tail(inflight)
    /\ log' = Append(log, E("ret_disconnected"))
    /\ UNCHANGED <<params, facade, err, updates, msg, sockets, connects, failed,
                   sess_errs, disc_calls>>

\* line 174: disconnected_callback raises inside the except clause, which no
\* try statement encloses
DiscRaise(kind) ==
    /\ pc = "disc"
    /\ inflight # <<>>
    /\ pc' = "raised"
    /\ err' = kind
    /\ inflight' = Tail(inflight)
    /\ log' = Append(log, Ev("raise_disconnected", <<kind>>, 0))
    /\ UNCHANGED <<params, facade, updates, msg, sockets, connects, failed,
                   sess_errs, disc_calls>>

\* lines 175-176: asyncio.sleep(websocket_reconnect_time) completes; continue
SleepDone ==
    /\ pc = "sleep"
    /\ pc' = "loop"
    /\ log' = Append(log, Ev("sleep_done", <<>>, websocket_reconnect_time))
    /\ UNCHANGED <<params, facade, err, updates, msg, sockets, inflight, connects,
                   failed, sess_errs, disc_calls>>

\* the positions at which the coroutine is suspended in an await
AwaitPoints == {"connecting", "prime", "send", "recv", "deliver", "disc", "sleep"}

\* the positions inside the `async with` block
InSession == {"entered", "prime", "send", "recv", "parse", "deliver"}

\* Cancel with CancelledError caught by line 166: the loop sleeps and retries
Cancel_Swallowed ==
    /\ pc \in AwaitPoints
    /\ pc' = IF pc = "sleep" THEN "loop" ELSE "sleep"
    /\ err' = err
    /\ inflight' = <<>>
    /\ sockets' = IF pc \in InSession THEN sockets - 1 ELSE sockets
    /\ log' = IF pc \in InSession
              THEN log \o <<E("cancelled"), E("close")>>
              ELSE Append(log, E("cancelled"))
    /\ UNCHANGED <<params, facade, updates, msg, connects, failed, sess_errs,
                   disc_calls>>

\* the enclosing task is cancelled while the coroutine is suspended:
\* CancelledError is raised at the await, a pending callback ends with it, the
\* with block releases the websocket, and line 166 does not catch it
Cancel ==
    /\ pc \in AwaitPoints
    /\ pc' = "cancelled"
    /\ err' = "cancelled"
    /\ inflight' = <<>>
    /\ sockets' = IF pc \in InSession THEN sockets - 1 ELSE sockets
    /\ log' = IF pc \in InSession
              THEN log \o <<E("cancelled"), E("close")>>
              ELSE Append(log, E("cancelled"))
    /\ UNCHANGED <<params, facade, updates, msg, connects, failed, sess_errs,
                   disc_calls>>

Next ==
    \/ Start
    \/ Connect
    \/ ConnectOk
    \/ \E kind \in Kinds : ConnectFail(kind)
    \/ CallPrime
    \/ PrimeReturn
    \/ \E kind \in Kinds : PrimeRaise(kind)
    \/ SendOk
    \/ \E kind \in Kinds : SendFail(kind)
    \/ \E m \in Msgs : Recv(m)
    \/ RecvClosed
    \/ \E kind \in Kinds : RecvFail(kind)
    \/ CallUpdate
    \/ DeliverReturn
    \/ \E kind \in Kinds : DeliverRaise(kind)
    \/ DiscReturn
    \/ \E kind \in Kinds : DiscRaise(kind)
    \/ SleepDone
    \/ Cancel

Spec == Init /\ [][Next]_vars

\* ---------------------------------------------------------------- claims

\* positions of the events named `e` in the current iteration
At(e) == {i \in 1..Len(log) : log[i].ev = e}

CallEvents == {"call_update", "call_disconnected"}

\* the lists handed to update_callback after the priming call
Delivered ==
    LET calls == SelectSeq(log, LAMBDA e : e.ev = "call_update")
    IN  IF calls = <<>> THEN <<>>
        ELSE [i \in 1..(Len(calls) - 1) |-> calls[i + 1].arg]

\* the lists of the messages received in the session, in arrival order
ReceivedLists == [i \in 1..Len(Received) |-> Received[i].arg]

Front(q) == SubSeq(q, 1, Len(q) - 1)

Last(q) == q[Len(q)]

\* C1: with ws_port = 0 the handler raises at once and never enters the loop:
\* no connect attempt, no callback invocation, no backoff sleep, no event
C1_PortZeroFailsImmediately ==
    ws_port = 0 =>
        /\ pc \in {"start", "raised"}
        /\ pc = "raised" => err = "not_enabled"
        /\ connects = 0
        /\ disc_calls = 0
        /\ inflight = <<>>
        /\ sockets = 0
        /\ log = <<>>

C1_Witness == ws_port = 0 /\ pc = "raised" /\ err = "not_enabled"

\* C2: in every session the first callback invocation is
\* update_callback(event_types as given), and a subscribe frame is sent only
\* after that invocation has completed
C2_PrimingBeforeSubscribe ==
    /\ \A i \in 1..Len(log) :
           (/\ log[1].ev = "connect_ok"
            /\ log[i].ev \in CallEvents
            /\ \A j \in 1..(i - 1) : log[j].ev \notin CallEvents)
               => /\ log[i].ev = "call_update"
                  /\ log[i].arg = given_event_types
    /\ \A i \in At("send") :
           \E j \in 1..(i - 1), k \in 1..(i - 1) :
               /\ j < k
               /\ log[j].ev = "call_update"
               /\ log[j].arg = given_event_types
               /\ \A h \in 1..(j - 1) : log[h].ev \notin CallEvents
               /\ log[k].ev = "ret_update"

C2_Witness == connects >= 2 /\ pc = "recv" /\ At("send") # {}

\* C3: within a session update_callback is invoked once per received update
\* frame, with that frame's notify list, in arrival order; only the message
\* just taken (not yet handed over, or not an update frame) is outstanding
C3_DeliveredInOrder ==
    IF pc = "parse" \/ At("parse_fail") # {}
    THEN ReceivedLists # <<>> /\ Delivered = Front(ReceivedLists)
    ELSE Delivered = ReceivedLists

C3_Witness ==
    /\ pc = "recv"
    /\ Len(ReceivedLists) = 2
    /\ ReceivedLists[1] # ReceivedLists[2]
    /\ Delivered = ReceivedLists

\* a step in which the loop opens a connection, sends a frame or takes an
\* inbound message
TransportStep ==
    \/ connects' # connects
    \/ \E i \in (Len(log) + 1)..Len(log') :
           log'[i].ev \in {"connect_ok", "send", "recv"}

\* C4: at most one callback invocation is in progress, and the loop opens no
\* connection, sends no frame and takes no message while one is in progress
C4_CallbacksSerialized ==
    /\ [](Len(inflight) <= 1)
    /\ [][TransportStep => inflight = <<>>]_vars

C4_Witness ==
    /\ pc = "deliver"
    /\ inflight = <<"update_callback">>
    /\ Len(Received) = 2

\* C5: after a connect attempt that failed with a timeout or transport error
\* no such error leaves the handler, and the loop is reached again only
\* after a completed sleep of websocket_reconnect_time
C5_ConnectFailureBacksOff ==
    (At("connect_fail") # {} /\ log[1].arg[1] \in Retryable) =>
        /\ ~(pc = "raised" /\ err \in Retryable)
        /\ pc = "loop" =>
               Last(log) = Ev("sleep_done", <<>>, websocket_reconnect_time)

\* C6 as stated: the invocations of a supplied disconnected_callback always
\* number the failed connect attempts, and none happens while a session is
\* connected
C6_HookPerFailedConnect ==
    disconnected_callback =>
        /\ disc_calls = failed
        /\ sockets > 0 => At("call_disconnected") = {}

\* C6 amended: the invocations of a supplied disconnected_callback always
\* number the failed connect attempts plus the sessions ended by a timeout or
\* transport error, and none happens while a session is connected
C6_HookPerFailure ==
    disconnected_callback =>
        /\ disc_calls = failed + sess_errs
        /\ sockets > 0 => At("call_disconnected") = {}

C6_Witness ==
    /\ disconnected_callback
    /\ failed = 2
    /\ sess_errs = 1
    /\ disc_calls = 3

\* C7: when an established session has ended (socket closed, or an error
\* while receiving) the loop is back at connecting only after a completed
\* sleep of websocket_reconnect_time
C7_SessionEndBacksOff ==
    (pc = "loop" /\ At("send") # {}) =>
        Last(log) = Ev("sleep_done", <<>>, websocket_reconnect_time)

\* C8: a supplied disconnected_callback has been invoked exactly once when
\* the loop is back at connecting after a subscribed session, and exactly once
\* after a failed connect attempt
C8_HookPerSessionEnd ==
    (/\ disconnected_callback
     /\ pc = "loop"
     /\ At("send") # {} \/ At("connect_fail") # {})
        => Cardinality(At("call_disconnected")) = 1

\* C9: event_types is never modified: every subscribe frame and every priming
\* update_callback call, in the first session and after any reconnect,
\* carries event_types as the caller gave it
C9_EventTypesVerbatim ==
    /\ event_types = given_event_types
    /\ \A i \in At("send") : log[i].arg = given_event_types
    /\ \A i \in At("call_update") :
           (i > 1 /\ log[i - 1].ev = "connect_ok")
               => log[i].arg = given_event_types

C9_Witness ==
    /\ connects >= 2
    /\ At("send") # {}
    /\ updates # <<>>
    /\ updates # event_types

\* C10: no timeout or transport error raised while the handler runs ever
\* leaves it
C10_NoTransportErrorEscapes == pc = "raised" => err \notin Retryable

\* the positions at which the coroutine has ended
Ended == {"raised", "cancelled"}

\* a step taken by a coroutine that has ended
StepAfterEnd == pc \in Ended /\ vars' # vars

\* once the coroutine has ended nothing more happens
EndIsFinal == [][~StepAfterEnd]_vars

\* positions of the events that report an exception of kind k
Raised(k) ==
    {i \in 1..Len(log) :
        /\ log[i].ev \in {"connect_fail", "raise_update", "send_fail",
                          "recv_fail", "parse_fail", "raise_disconnected"}
        /\ log[i].arg = <<k>>}

\* C11: an exception that is neither a timeout nor a transport error (a
\* message that is not JSON or lacks "notify" among them) leaves the handler
\* and ends the loop: after it only the websocket is released; no callback
\* invocation, subscribe frame, sleep or connect attempt follows
C11_UnclassifiedPropagates ==
    /\ [](\A i \in Raised("other") :
              /\ pc = "raised"
              /\ err = "other"
              /\ inflight = <<>>
              /\ sockets = 0
              /\ \A j \in (i + 1)..Len(log) : log[j].ev = "close")
    /\ EndIsFinal

C11_Witness ==
    /\ At("parse_fail") # {}
    /\ At("send") # {}
    /\ pc = "raised"
    /\ connects >= 2

\* the positions of a coroutine that is running
Running ==
    {"start", "loop", "connecting", "entered", "prime", "send", "recv",
     "parse", "deliver", "disc", "sleep"}

C13_CancelStops ==
    /\ [](\A i \in At("cancelled") :
              /\ pc = "cancelled"
              /\ err = "cancelled"
              /\ inflight = <<>>
              /\ sockets = 0
              /\ \A j \in (i + 1)..Len(log) : log[j].ev = "close")
    /\ EndIsFinal

C13_Witness ==
    /\ pc = "cancelled"
    /\ Len(log) >= 2
    /\ Last(log).ev = "cancelled"
    /\ log[Len(log) - 1].ev = "ret_disconnected"

\* C16: at most one websocket is open, and the websocket of a session is
\* released before disconnected_callback is invoked, before the sleep and
\* before the next connect attempt, however the session ended
C16_SocketReleased ==
    /\ sockets \in {0, 1}
    /\ sockets = 1 <=> pc \in InSession
    /\ At("connect_ok") # {} =>
           /\ \A i \in At("call_disconnected") :
                  \E j \in At("close") : j < i
           /\ \A i \in At("sleep_done") : \E j \in At("close") : j < i
           /\ Cardinality(At("close")) <= 1

C16_Witness ==
    /\ pc = "disc"
    /\ At("raise_update") # {}
    /\ At("recv") # {}
    /\ sockets = 0
    /\ connects >= 2

\* C17: a timeout or transport error raised by update_callback is handled as
\* a failed connect is meant to be: the websocket is released, nothing more
\* of the session happens, a supplied disconnected_callback is invoked
\* exactly once, no timeout or transport error leaves the handler, and the
\* loop is reached again only after a completed sleep of
\* websocket_reconnect_time; raised by the priming call, the session has no
\* subscribe frame and no inbound message
C17_CallbackErrorRetried ==
    \A k \in Retryable : \A i \in Raised(k) :
        log[i].ev = "raise_update" =>
            /\ sockets = 0
            /\ log[i + 1].ev = "close"
            /\ \A j \in (i + 1)..Len(log) :
                   log[j].ev \notin {"call_update", "ret_update", "send",
                                     "recv", "connect_ok"}
            /\ IF disconnected_callback
               THEN At("call_disconnected") = {i + 2}
               ELSE At("call_disconnected") = {}
            /\ ~(pc = "raised" /\ err \in Retryable)
            /\ pc = "loop" =>
                   Last(log) = Ev("sleep_done", <<>>, websocket_reconnect_time)
            /\ i = 3 => (At("send") = {} /\ At("recv") = {})

\* the transport and callback events of a session, in order
SessionEvents ==
    SelectSeq(log, LAMBDA e :
        e.ev \in {"connect_ok", "call_update", "send", "recv"})

\* the order a session keeps: connect, priming call, subscribe frame, then
\* receive and deliver in turn
SessionOrder(k) ==
    IF k = 1 THEN "connect_ok"
    ELSE IF k = 2 THEN "call_update"
    ELSE IF k = 3 THEN "send"
    ELSE IF k % 2 = 0 THEN "recv" ELSE "call_update"

\* C18: a session sends at most one subscribe frame and delivers no server
\* update before it: the events of a session are connect, priming call,
\* subscribe frame, then (receive, deliver) pairs
C18_SessionOrder ==
    /\ Cardinality(At("send")) <= 1
    /\ \A k \in 1..Len(SessionEvents) : SessionEvents[k].ev = SessionOrder(k)

C18_Witness ==
    /\ Len(SessionEvents) = 7
    /\ pc = "recv"
    /\ connects >= 2

\* ------------------------------------------ the loop under a recovering server

\* the server has recovered: after MaxConnects connect attempts, ws_connect
\* succeeds and sessions do not break
Settled == connects > MaxConnects

\* lines 151-153 once the server has recovered: `while True` goes on without
\* end; the history counter stays one past its bound
ConnectAgain ==
    /\ pc = "loop"
    /\ connects >= MaxConnects
    /\ pc' = "connecting"
    /\ connects' = MaxConnects + 1
    /\ log' = <<>>
    /\ UNCHANGED <<params, facade, err, updates, msg, sockets, inflight, failed,
                   sess_errs, disc_calls>>

\* the update frames among the inbound messages
UpdateMsgs == {m \in Msgs : m.kind = "update"}

\* the handler with a server that fails and breaks sessions only before it
\* has recovered; no exception other than a timeout or transport error is
\* raised and the task is not cancelled
NextLive ==
    \/ Start
    \/ Connect
    \/ ConnectAgain
    \/ ConnectOk
    \/ \E kind \in Retryable : ~Settled /\ ConnectFail(kind)
    \/ CallPrime
    \/ PrimeReturn
    \/ \E kind \in Retryable : ~Settled /\ PrimeRaise(kind)
    \/ SendOk
    \/ \E kind \in Retryable : ~Settled /\ SendFail(kind)
    \/ \E m \in UpdateMsgs : Recv(m)
    \/ ~Settled /\ RecvClosed
    \/ \E kind \in Retryable : ~Settled /\ RecvFail(kind)
    \/ CallUpdate
    \/ DeliverReturn
    \/ \E kind \in Retryable : ~Settled /\ DeliverRaise(kind)
    \/ DiscReturn
    \/ \E kind \in Retryable : DiscRaise(kind)
    \/ SleepDone

\* every awaited operation completes and the event loop resumes the coroutine
LiveSpec == Init /\ [][NextLive]_vars /\ WF_vars(NextLive)

\* the subscribe frame of the current session has been sent
Subscribed == pc \in {"recv", "parse", "deliver"}

\* a connect attempt has failed or a session has broken, and the loop is on
\* its way back to ws_connect
Recovering == pc \in {"disc", "sleep", "loop"}

\* C14: once connect attempts succeed, the loop reaches the subscribed state
\* again after any failed connects and broken sessions
C14_Resubscribes == Recovering ~> Subscribed

\* ------------------------------------------------ the request methods

\* the handler variables, which the request methods leave alone
handler ==
    <<params, pc, err, updates, msg, sockets, inflight, log, connects, failed,
      sess_errs, disc_calls>>

\* Python truth of an optional int (`if volume:`) and of an optional str
TruthyInt(x) == x # None /\ x[1] # 0

TruthyStr(x) == x # None /\ x[1] # ""

\* integers passed as volume, step, position_ms, seek_ms
IntArgs == {None, Some(-10), Some(0), Some(50)}

\* strings passed as ids and names
StrArgs == {None, Some(""), Some("7")}

TrackIds == {0, 42}

Call(op, x, y, s, t) == [op |-> op, x |-> x, y |-> y, s |-> s, t |-> t]

\* the calls of the read methods of lines 274-276, 346-426, 456-465
GetCalls ==
    {Call(op, None, None, None, None) :
        op \in {"get_playlists", "get_artists", "get_genres", "get_pipes",
                "get_current_queue_item"}}
        \cup {Call(op, Some(id), None, None, None) :
                op \in {"get_track_info", "get_track"}, id \in TrackIds}
        \cup {Call(op, None, None, a, None) :
                op \in {"get_albums", "get_directory"}, a \in StrArgs}
        \cup {Call("get_tracks", None, None, a, b) :
                a \in StrArgs, b \in StrArgs}
        \cup {Call("get_genre", None, None, Some("Jazz"), Some(m)) :
                m \in {"albums", "tracks"}}

\* the calls of seek (line 213) and set_volume (line 252): x and y are the
\* two alternative arguments, s is output_id
PutCalls ==
    {Call("seek", a, b, None, None) : a \in IntArgs, b \in IntArgs}
        \cup {Call("set_volume", a, b, o, None) :
                a \in IntArgs, b \in IntArgs, o \in {None, Some("7")}}

\* JSON bodies of a response: {} (or null), {"items": [...]},
\* {"tracks": {"items": [...]}}, an object without those keys
Payloads ==
    {[shape |-> "empty", items |-> <<>>],
     [shape |-> "items", items |-> <<>>],
     [shape |-> "items", items |-> <<"a", "b">>],
     [shape |-> "search", items |-> <<"a">>],
     [shape |-> "other", items |-> <<>>]}

\* what a GET comes to: an exception, or a response with a JSON body
GetOutcomes ==
    {[kind |-> k, json |-> NoJson, status |-> 0] : k \in Kinds}
        \cup {[kind |-> "json", json |-> j, status |-> 0] : j \in Payloads}

\* what a PUT comes to: an exception, or a response with a status
PutOutcomes ==
    {[kind |-> k, json |-> NoJson, status |-> 0] : k \in Kinds}
        \cup {[kind |-> "status", json |-> NoJson, status |-> n] :
                n \in {204, 400}}

\* values a method returns, and the exception it raises
RetNone == [NoRet EXCEPT !.kind = "return", !.type = "None"]

RetList(l) == [NoRet EXCEPT !.kind = "return", !.type = "list", !.list = l]

RetObj(j) == [NoRet EXCEPT !.kind = "return", !.type = "dict", !.obj = j]

RetItem(i) == [NoRet EXCEPT !.kind = "return", !.type = "item", !.list = <<i>>]

RetStatus(n) == [NoRet EXCEPT !.kind = "return", !.type = "int", !.status = n]

Raise(e) == [NoRet EXCEPT !.kind = "raise", !.exc = e]

\* lines 81-84: the url of get_request, as its pieces; q: the params items
RECURSIVE Query(_)
Query(q) ==
    IF q = <<>> THEN <<>>
    ELSE <<q[1][1], "=", q[1][2]>>
             \o (IF Len(q) > 1 THEN <<"&">> ELSE <<>>) \o Query(Tail(q))

Url(endpoint, q) ==
    endpoint \o (IF q # <<>> THEN <<"?">> \o Query(q) ELSE <<>>)

\* get_request without the except clause of line 88
get_request_NoCatch(got) ==
    IF got.kind \in Kinds THEN Raise(got.kind)
    ELSE IF got.json.shape = "empty" THEN RetNone
    ELSE RetObj(got.json)

\* lines 85-91: get_request, given what the GET came to
get_request(got) ==
    IF got.kind \in Retryable THEN RetNone
    ELSE IF got.kind \in Kinds THEN Raise(got.kind)
    ELSE IF got.json.shape = "empty" THEN RetNone
    ELSE RetObj(got.json)

\* line 415: album_id or playlist_id
ItemId(c) == IF TruthyStr(c.s) THEN c.s ELSE c.t

\* the get_request call of each read method: endpoint and params
GetUrl(c) ==
    CASE c.op = "get_track_info" ->
             Url(<<"library/tracks/", ToString(c.x[1])>>, <<>>)
      [] c.op = "get_track" ->
             Url(<<"library/tracks/", ToString(c.x[1])>>, <<>>)
      [] c.op = "get_playlists" -> Url(<<"library/playlists">>, <<>>)
      [] c.op = "get_artists" -> Url(<<"library/artists">>, <<>>)
      [] c.op = "get_genres" -> Url(<<"library/genres">>, <<>>)
      [] c.op = "get_albums" ->
             IF TruthyStr(c.s)
             THEN Url(<<"library/artists/", c.s[1], "/albums">>, <<>>)
             ELSE Url(<<"library/albums">>, <<>>)
      [] c.op = "get_genre" ->
             Url(<<"search">>,
                 << <<"expression", "genre+is+\"" \o c.s[1] \o "\"">>,
                    <<"type", c.t[1]>> >>)
      [] c.op = "get_directory" ->
             Url(<<"library/files">>,
                 IF TruthyStr(c.s) THEN << <<"directory", c.s[1]>> >>
                 ELSE <<>>)
      [] c.op = "get_tracks" ->
             Url(<<"library/",
                   IF TruthyStr(c.s) THEN "albums" ELSE "playlists", "/",
                   ItemId(c)[1], "/tracks">>, <<>>)
      [] c.op = "get_pipes" ->
             Url(<<"search">>,
                 << <<"type", "tracks">>,
                    <<"expression", "data_kind+is+pipe">> >>)
      [] c.op = "get_current_queue_item" ->
             Url(<<"queue">>, << <<"id", "now_playing">> >>)

\* x.get("items") if x else None (lines 360, 365, 375, 380, 421)
Items(r) ==
    IF r.type = "None" THEN RetNone
    ELSE IF r.obj.shape = "items" THEN RetList(r.obj.items)
    ELSE RetNone

\* what each read method makes of the value r that get_request returned
Finish(c, r) ==
    IF r.kind = "raise" THEN r
    ELSE CASE c.op \in {"get_track_info", "get_directory", "get_track"} -> r
           [] c.op \in {"get_playlists", "get_artists", "get_albums",
                        "get_genres", "get_tracks"} -> Items(r)
           [] c.op = "get_pipes" ->
                  IF r.type = "None" THEN RetNone
                  ELSE IF r.obj.shape = "search" THEN RetList(r.obj.items)
                  ELSE Raise("KeyError")
           [] c.op = "get_genre" ->
                  IF r.type = "None" THEN RetNone
                  ELSE IF r.obj.shape = "search" THEN RetList(r.obj.items)
                  ELSE Raise("TypeError")
           [] c.op = "get_current_queue_item" ->
                  IF r.type = "None" THEN RetNone
                  ELSE IF r.obj.shape # "items" THEN Raise("KeyError")
                  ELSE IF r.obj.items # <<>> THEN RetItem(r.obj.items[1])
                  ELSE RetNone

\* a read method is called and awaits get_request; get_tracks without an
\* item id returns [] at once (lines 416-417)
ApiGet(c) ==
    /\ api_pc = "idle"
    /\ api_call' = c
    /\ IF c.op = "get_tracks" /\ ItemId(c) = None
       THEN /\ api_pc' = "done"
            /\ api_req' = api_req
            /\ api_ret' = RetList(<<>>)
       ELSE /\ api_pc' = "get"
            /\ api_req' = [NoReq EXCEPT !.method = "GET", !.url = GetUrl(c)]
            /\ api_ret' = api_ret
    /\ UNCHANGED <<handler, api_got>>

\* the GET of line 86 ends; get_request and the method return or raise
GetAnswered(got) ==
    /\ api_pc = "get"
    /\ api_pc' = "done"
    /\ api_got' = got
    /\ api_ret' = Finish(api_call, get_request(got))
    /\ UNCHANGED <<handler, api_call, api_req>>

\* lines 217-223 and 260-268: the params of seek and of set_volume, or no
\* params when the call is rejected
PutParams(c) ==
    IF TruthyInt(c.x)
    THEN [key |-> IF c.op = "seek" THEN "position_ms" ELSE "volume",
          value |-> c.x,
          output_id |-> IF TruthyStr(c.s) THEN c.s ELSE None]
    ELSE IF TruthyInt(c.y)
    THEN [key |-> IF c.op = "seek" THEN "seek_ms" ELSE "step",
          value |-> c.y,
          output_id |-> IF TruthyStr(c.s) THEN c.s ELSE None]
    ELSE [key |-> "", value |-> None, output_id |-> None]

\* seek or set_volume is called: it returns -1 or HTTPStatus.BAD_REQUEST at
\* once, or awaits put_request (lines 224, 269)
ApiPut(c) ==
    /\ api_pc = "idle"
    /\ api_call' = c
    /\ IF PutParams(c).key = ""
       THEN /\ api_pc' = "done"
            /\ api_req' = api_req
            /\ api_ret' = RetStatus(IF c.op = "seek" THEN -1 ELSE 400)
       ELSE /\ api_pc' = "put"
            /\ api_req' =
                   [method |-> "PUT",
                    url |-> IF c.op = "seek" THEN <<"player/seek">>
                            ELSE <<"player/volume">>,
                    key |-> PutParams(c).key,
                    value |-> PutParams(c).value,
                    output_id |-> PutParams(c).output_id]
            /\ api_ret' = api_ret
    /\ UNCHANGED <<handler, api_got>>

\* lines 109-112: the PUT ends; put_request returns the status or the
\* exception passes through it and through the method
PutAnswered(got) ==
    /\ api_pc = "put"
    /\ api_pc' = "done"
    /\ api_got' = got
    /\ api_ret' = IF got.kind \in Kinds THEN Raise(got.kind)
                  ELSE RetStatus(got.status)
    /\ UNCHANGED <<handler, api_call, api_req>>

FacadeNext ==
    \/ \E c \in GetCalls : ApiGet(c)
    \/ \E got \in GetOutcomes : GetAnswered(got)
    \/ \E c \in PutCalls : ApiPut(c)
    \/ \E got \in PutOutcomes : PutAnswered(got)

\* one call of a request method, the handler not started
FacadeInit ==
    /\ Init
    /\ ws_port = 3689
    /\ event_types = <<"player">>
    /\ websocket_reconnect_time = 1
    /\ ~disconnected_callback

FacadeSpec == FacadeInit /\ [][FacadeNext]_vars

\* the read methods built on get_request
GetOps ==
    {"get_track_info", "get_playlists", "get_artists", "get_albums",
     "get_genres", "get_genre", "get_directory", "get_tracks", "get_track",
     "get_pipes", "get_current_queue_item"}

\* C15: every read method built on get_request returns None, and does not
\* raise, when its GET fails with a timeout or transport error
C15_ReadsReturnNone ==
    (api_pc = "done" /\ api_call.op \in GetOps /\ api_got.kind \in Retryable)
        => (api_ret.kind = "return" /\ api_ret.type = "None")

C15_Witness ==
    /\ api_pc = "done"
    /\ api_call.op = "get_current_queue_item"
    /\ api_got.kind = "timeout"
    /\ api_ret = RetNone

\* C19: set_volume and seek reject a call, issuing no request, exactly when
\* neither alternative argument is supplied; any supplied integer, 0
\* included, is sent by a PUT to player/volume or player/seek, the first
\* alternative when both are supplied
C19_ZeroIsAValue ==
    (api_call.op \in {"seek", "set_volume"} /\ api_pc \in {"put", "done"}) =>
        LET first == IF api_call.op = "seek" THEN "position_ms" ELSE "volume"
            second == IF api_call.op = "seek" THEN "seek_ms" ELSE "step"
            url == IF api_call.op = "seek" THEN <<"player/seek">>
                   ELSE <<"player/volume">>
        IN  /\ api_req = NoReq <=> (api_call.x = None /\ api_call.y = None)
            /\ api_call.x # None =>
                   /\ api_req.method = "PUT"
                   /\ api_req.url = url
                   /\ api_req.key = first
                   /\ api_req.value = api_call.x
            /\ (api_call.x = None /\ api_call.y # None) =>
                   /\ api_req.method = "PUT"
                   /\ api_req.url = url
                   /\ api_req.key = second
                   /\ api_req.value = api_call.y

====
